---- MODULE Spec2Model ----
(***************************************************************************)
(* InvoiceForge (src/src/app/components/InvoiceForge.tsx): the invoice     *)
(* editor, its normalizer, the totals, the local store and the share-link  *)
(* codec, as a state machine.                                              *)
(*                                                                         *)
(* JavaScript values are records tagged by t (the typeof / JSON kind).     *)
(* A string is the sequence of its Unicode code points; the alphabet of    *)
(* the model is printable ASCII, line feed and non-surrogate code points   *)
(* above 127.  A finite number is an exact reduced fraction n/d: binary    *)
(* floating-point error is not modelled, non-finite numbers are.           *)
(***************************************************************************)
EXTENDS Integers, Sequences, FiniteSets, TLC

VARIABLES
    invoice,     \* useState<Invoice>: the invoice being edited (line 148)
    status,      \* useState<string>: the status line (line 149)
    example,     \* the module-level exampleInvoice of this page load (line 91)
    storage,     \* localStorage[STORAGE_KEY]: NoEntry or a text (line 26)
    clipboard,   \* the data parameter of the last copied share link, or NoEntry
    clock,       \* the calendar day, <<year, month, day>>
    uidCount,    \* how many identifiers uid() has produced so far
    log,         \* the last operation and its arguments (observation only)
    ops,         \* how many operations the session has seen (bounds the model)
    saved,       \* the invoice as it was at the last saveLocal (observation only)
    shared       \* the invoice as it was at the last copyShareLink (observation only)

vars == <<invoice, status, example, storage, clipboard, clock, uidCount, log,
          ops, saved, shared>>

-----------------------------------------------------------------------------
(* Bounds of the model.                                                    *)

MaxItems == 3
MaxOps == 3
MaxDays == 1

-----------------------------------------------------------------------------
(* Sequences.                                                              *)

RECURSIVE FlatRange(_, _, _)
\* the concatenation of ss[lo..hi], by halving (recursion depth log n)
FlatRange(ss, lo, hi) ==
    IF lo > hi THEN <<>>
    ELSE IF lo = hi THEN ss[lo]
    ELSE LET mid == (lo + hi) \div 2
         IN  FlatRange(ss, lo, mid) \o FlatRange(ss, mid + 1, hi)

Flat(ss) == FlatRange(ss, 1, Len(ss))

Abs(i) == IF i < 0 THEN -i ELSE i

RECURSIVE Gcd(_, _)
Gcd(a, b) == IF b = 0 THEN a ELSE Gcd(b, a % b)

RECURSIVE Pow10(_)
Pow10(e) == IF e = 0 THEN 1 ELSE 10 * Pow10(e - 1)

-----------------------------------------------------------------------------
(* JavaScript values.                                                      *)

Undefined == [t |-> "undefined"]
Null == [t |-> "null"]
Bool(b) == [t |-> "boolean", b |-> b]
Str(s) == [t |-> "string", s |-> s]
Arr(a) == [t |-> "array", a |-> a]
\* an object: its own properties in insertion order, keys k[i] with values v[i]
Obj(k, v) == [t |-> "object", k |-> k, v |-> v]

\* a finite number n/d, reduced, d > 0
Reduced(n, d, g) == [t |-> "number", k |-> "fin", n |-> n \div g, d |-> d \div g]
Rat(n, d) == Reduced(IF d < 0 THEN -n ELSE n, Abs(d), Gcd(Abs(n), Abs(d)))
Int2Num(i) == Rat(i, 1)
NaN == [t |-> "number", k |-> "nan", n |-> 0, d |-> 1]
Infinity == [t |-> "number", k |-> "inf", n |-> 0, d |-> 1]
NegInfinity == [t |-> "number", k |-> "ninf", n |-> 0, d |-> 1]

\* typeof x === 'string', typeof x === 'number', Array.isArray(x)
IsString(x) == x.t = "string"
IsNumber(x) == x.t = "number"
IsArray(x) == x.t = "array"
IsFinite(x) == x.t = "number" /\ x.k = "fin"

\* x ?? y
Coalesce(x, y) == IF x.t \in {"undefined", "null"} THEN y ELSE x

\* !x
Falsy(x) ==
    CASE x.t \in {"undefined", "null"} -> TRUE
      [] x.t = "boolean" -> ~x.b
      [] x.t = "string" -> x.s = <<>>
      [] x.t = "number" -> x.k = "nan" \/ (x.k = "fin" /\ x.n = 0)
      [] OTHER -> FALSE

\* x.key (x?.key): the property of an object, undefined of anything else
\* (the keys read here are no property of a primitive or of an array)
Get(x, key) ==
    IF x.t = "object" /\ \E i \in 1..Len(x.k) : x.k[i] = key
    THEN x.v[CHOOSE i \in 1..Len(x.k) : x.k[i] = key]
    ELSE Undefined

-----------------------------------------------------------------------------
(* TextEncoder / TextDecoder: UTF-8.                                       *)

\* one byte per character, as btoa takes a text (what C1 rules out)
Utf8BytesLatin1(c) == <<c % 256>>

\* the UTF-8 bytes of one code point
Utf8Bytes(c) ==
    IF c < 128 THEN <<c>>
    ELSE IF c < 2048 THEN <<192 + (c \div 64), 128 + (c % 64)>>
    ELSE IF c < 65536
         THEN <<224 + (c \div 4096), 128 + ((c \div 64) % 64), 128 + (c % 64)>>
    ELSE <<240 + (c \div 262144), 128 + ((c \div 4096) % 64),
           128 + ((c \div 64) % 64), 128 + (c % 64)>>

\* new TextEncoder().encode(input)
TextEncode(input) == Flat([i \in 1..Len(input) |-> Utf8Bytes(input[i])])

\* how many continuation bytes follow lead byte x (0: x is no lead byte)
Utf8Need(x) ==
    IF x \in 194..223 THEN 1
    ELSE IF x \in 224..239 THEN 2
    ELSE IF x \in 240..244 THEN 3
    ELSE 0

\* may byte c be the m-th continuation byte after lead byte x
Utf8ContOk(x, m, c) ==
    IF m = 1 /\ x = 224 THEN c \in 160..191
    ELSE IF m = 1 /\ x = 237 THEN c \in 128..159
    ELSE IF m = 1 /\ x = 240 THEN c \in 144..191
    ELSE IF m = 1 /\ x = 244 THEN c \in 128..143
    ELSE c \in 128..191

\* the m bytes after position i continue the sequence that b[i] leads
Utf8Good(b, i, m) ==
    i + m <= Len(b) /\ \A j \in 1..m : Utf8ContOk(b[i], j, b[i + j])

Utf8CodePoint(b, i) ==
    LET x == b[i]
    IN  CASE Utf8Need(x) = 1 -> (x - 192) * 64 + (b[i + 1] - 128)
          [] Utf8Need(x) = 2 ->
                (x - 224) * 4096 + (b[i + 1] - 128) * 64 + (b[i + 2] - 128)
          [] OTHER ->
                (x - 240) * 262144 + (b[i + 1] - 128) * 4096
                    + (b[i + 2] - 128) * 64 + (b[i + 3] - 128)

\* what the decoder emits for the byte at i: a code point, U+FFFD for an
\* ill-formed sequence (the decoder is not fatal), or -1 for a byte that an
\* earlier lead byte has consumed
Utf8Emit(b, i) ==
    LET x == b[i]
    IN  IF x < 128 THEN x
        ELSE IF Utf8Need(x) > 0
             THEN IF Utf8Good(b, i, Utf8Need(x)) THEN Utf8CodePoint(b, i) ELSE 65533
        ELSE IF x \in 128..191
                /\ \E m \in 1..3 : /\ i - m >= 1
                                   /\ Utf8Need(b[i - m]) >= m
                                   /\ Utf8Good(b, i - m, m)
             THEN -1
        ELSE 65533

\* new TextDecoder().decode(bytes): never throws; a leading BOM is dropped
DropBOM(out) == IF Len(out) > 0 /\ out[1] = 65279 THEN Tail(out) ELSE out
TextDecode(bytes) ==
    DropBOM(SelectSeq([i \in 1..Len(bytes) |-> Utf8Emit(bytes, i)], LAMBDA c : c # -1))

-----------------------------------------------------------------------------
(* btoa / atob: base64.                                                    *)

\* the character of a six-bit value: A-Z a-z 0-9 + /
B64Char(v) ==
    IF v < 26 THEN 65 + v
    ELSE IF v < 52 THEN 71 + v
    ELSE IF v < 62 THEN v - 4
    ELSE IF v = 62 THEN 43
    ELSE 47

IsB64Char(c) == c \in (65..90) \cup (97..122) \cup (48..57) \cup {43, 47}

B64Value(c) ==
    IF c \in 65..90 THEN c - 65
    ELSE IF c \in 97..122 THEN c - 71
    ELSE IF c \in 48..57 THEN c + 4
    ELSE IF c = 43 THEN 62
    ELSE 63

\* btoa(binary), binary the string whose char codes are the bytes
Btoa(bytes) ==
    LET n == Len(bytes)
        at(i) == IF i <= n THEN bytes[i] ELSE 0
    IN  [j \in 1..(4 * ((n + 2) \div 3)) |->
            LET g == 3 * ((j - 1) \div 4)
                pos == (j - 1) % 4
            IN  CASE pos = 0 -> B64Char(at(g + 1) \div 4)
                  [] pos = 1 -> B64Char((at(g + 1) % 4) * 16 + (at(g + 2) \div 16))
                  [] pos = 2 -> IF g + 2 > n THEN 61
                                ELSE B64Char((at(g + 2) % 16) * 4 + (at(g + 3) \div 64))
                  [] OTHER -> IF g + 3 > n THEN 61 ELSE B64Char(at(g + 3) % 64)]

\* atob(s), the forgiving-base64 decode: [ok, bytes]; ok = FALSE is the
\* InvalidCharacterError it throws
\* how many padding characters end t: one or two, when the length of t is a
\* multiple of four
PadCount(t) ==
    IF Len(t) > 0 /\ Len(t) % 4 = 0 /\ t[Len(t)] = 61
    THEN IF t[Len(t) - 1] = 61 THEN 2 ELSE 1
    ELSE 0
StripPadding(t) == SubSeq(t, 1, Len(t) - PadCount(t))
\* the bytes that the base64 characters data stand for
AtobData(data) ==
    IF Len(data) % 4 = 1 \/ \E i \in 1..Len(data) : ~IsB64Char(data[i])
    THEN [ok |-> FALSE, bytes |-> <<>>]
    ELSE [ok |-> TRUE,
          bytes |-> [j \in 1..((Len(data) * 3) \div 4) |->
              LET g == 4 * ((j - 1) \div 3)
                  pos == (j - 1) % 3
                  v(i) == B64Value(data[g + i])
              IN  CASE pos = 0 -> v(1) * 4 + (v(2) \div 16)
                    [] pos = 1 -> (v(2) % 16) * 16 + (v(3) \div 4)
                    [] OTHER -> (v(3) % 4) * 64 + v(4)]]
Atob(s) == AtobData(StripPadding(SelectSeq(s, LAMBDA c : c \notin {9, 10, 12, 13, 32})))

\* s.replaceAll(from, to) for single characters
ReplaceChar(s, from, to) == [i \in 1..Len(s) |-> IF s[i] = from THEN to ELSE s[i]]

\* '==='.slice(k)
PadSlice(k) == [i \in 1..(IF k >= 3 THEN 0 ELSE 3 - k) |-> 61]

base64UrlEncodeUtf8(input) ==
    SelectSeq(ReplaceChar(ReplaceChar(Btoa(TextEncode(input)), 43, 45), 47, 95),
              LAMBDA c : c # 61)

\* [threw, text]: threw when atob throws
DecodeBinary(binary) ==
    IF binary.ok THEN [threw |-> FALSE, text |-> TextDecode(binary.bytes)]
    ELSE [threw |-> TRUE, text |-> <<>>]
base64UrlDecodeUtf8(input) ==
    DecodeBinary(Atob(ReplaceChar(ReplaceChar(input, 45, 43), 95, 47)
                        \o PadSlice((Len(input) + 3) % 4)))

-----------------------------------------------------------------------------
(* JSON.stringify.                                                         *)

RECURSIVE IntDigits(_)
IntDigits(i) == IF i < 10 THEN <<48 + i>> ELSE IntDigits(i \div 10) \o <<48 + (i % 10)>>

RECURSIVE FracDigits(_, _, _)
\* the decimal digits of r/d, 0 <= r < d, at most left of them
FracDigits(r, d, left) ==
    IF r = 0 \/ left = 0 THEN <<>>
    ELSE <<48 + ((10 * r) \div d)>> \o FracDigits((10 * r) % d, d, left - 1)

\* Number::toString of a finite number between 1e-6 and 1e21 in magnitude
\* a number written without its fraction (what C9 rules out)
NumberToStringWhole(x) ==
    (IF x.n < 0 THEN <<45>> ELSE <<>>) \o IntDigits(Abs(x.n) \div x.d)

FractionPart(frac) == IF frac = <<>> THEN <<>> ELSE <<46>> \o frac
NumberToString(x) ==
    (IF x.n < 0 THEN <<45>> ELSE <<>>) \o IntDigits(Abs(x.n) \div x.d)
        \o FractionPart(FracDigits(Abs(x.n) % x.d, x.d, 17))

\* the escape of one character inside a JSON string
QuoteChar(c) ==
    CASE c = 34 -> <<92, 34>>
      [] c = 92 -> <<92, 92>>
      [] c = 8 -> <<92, 98>>
      [] c = 9 -> <<92, 116>>
      [] c = 10 -> <<92, 110>>
      [] c = 12 -> <<92, 102>>
      [] c = 13 -> <<92, 114>>
      [] OTHER -> <<c>>

QuoteJSONString(s) == <<34>> \o Flat([i \in 1..Len(s) |-> QuoteChar(s[i])]) \o <<34>>

\* parts joined by commas
JoinComma(parts) ==
    Flat([i \in 1..(2 * Len(parts) - 1) |->
            IF i % 2 = 1 THEN parts[(i + 1) \div 2] ELSE <<44>>])

RECURSIVE JsonStringify(_)
\* JSON.stringify(x), x not undefined: a non-finite number is written null,
\* a property whose value is undefined is left out
JsonStringify(x) ==
    CASE x.t = "null" -> <<110, 117, 108, 108>>
      [] x.t = "undefined" -> <<110, 117, 108, 108>>
      [] x.t = "boolean" ->
            IF x.b THEN <<116, 114, 117, 101>> ELSE <<102, 97, 108, 115, 101>>
      [] x.t = "number" ->
            IF x.k = "fin" THEN NumberToString(x) ELSE <<110, 117, 108, 108>>
      [] x.t = "string" -> QuoteJSONString(x.s)
      [] x.t = "array" ->
            <<91>> \o JoinComma([i \in 1..Len(x.a) |-> JsonStringify(x.a[i])]) \o <<93>>
      [] OTHER ->
            <<123>>
            \o JoinComma(SelectSeq(
                   [i \in 1..Len(x.k) |->
                       IF x.v[i].t = "undefined" THEN <<>>
                       ELSE QuoteJSONString(x.k[i]) \o <<58>> \o JsonStringify(x.v[i])],
                   LAMBDA part : part # <<>>))
            \o <<125>>

-----------------------------------------------------------------------------
(* JSON.parse, by recursive descent.  A result is [ok, v, next]: whether a *)
(* value was read at the position, the value, and the position after it.   *)

JsonWs == {9, 10, 13, 32}
Digits == 48..57
ParseFail == [ok |-> FALSE, v |-> Undefined, next |-> 0]

\* the first position from i on whose character is not in C (Len(s) + 1 if none)
Scan(s, i, C) ==
    IF i > Len(s) \/ s[i] \notin C THEN i
    ELSE CHOOSE j \in (i + 1)..(Len(s) + 1) :
            /\ j > Len(s) \/ s[j] \notin C
            /\ \A m \in (i + 1)..(j - 1) : s[m] \in C

\* how many backslashes stand immediately before position j
BsRun(s, j) ==
    IF j = 1 \/ s[j - 1] # 92 THEN 0
    ELSE LET stop == CHOOSE k \in 0..(j - 2) :
                        /\ k = 0 \/ s[k] # 92
                        /\ \A m \in (k + 1)..(j - 1) : s[m] = 92
         IN  j - 1 - stop

\* a quote that no backslash escapes stands at position j
OpenQuote(s, j) == s[j] = 34 /\ BsRun(s, j) % 2 = 0

\* the character an escape \c stands for, -1 if the model has no such escape
Unescape(c) ==
    CASE c \in {34, 92, 47} -> c
      [] c = 98 -> 8
      [] c = 116 -> 9
      [] c = 110 -> 10
      [] c = 102 -> 12
      [] c = 114 -> 13
      [] OTHER -> -1

\* an unescaped backslash stands at p; p is the character such a backslash
\* escapes
EscapeStart(body, p) == body[p] = 92 /\ BsRun(body, p) % 2 = 0
Escaped(body, p) == p > 1 /\ EscapeStart(body, p - 1)

\* the characters of a string from what its quoted text emits: -2 marks a
\* backslash that starts an escape, -1 a character JSON does not allow
Emitted(emit) ==
    IF \E p \in 1..Len(emit) : emit[p] = -1
    THEN [ok |-> FALSE, s |-> <<>>]
    ELSE [ok |-> TRUE, s |-> SelectSeq(emit, LAMBDA c : c # -2)]

\* the string whose quoted text is body (the characters between the quotes)
ParseStringBody(body) ==
    IF \A p \in 1..Len(body) : body[p] # 92 /\ body[p] >= 32
    THEN [ok |-> TRUE, s |-> body]
    ELSE Emitted([p \in 1..Len(body) |->
                    IF Escaped(body, p) THEN Unescape(body[p])
                    ELSE IF EscapeStart(body, p) THEN -2
                    ELSE IF body[p] < 32 THEN -1
                    ELSE body[p]])

StringResult(r, close) ==
    IF r.ok THEN [ok |-> TRUE, v |-> Str(r.s), next |-> close + 1]
    ELSE [ok |-> FALSE, v |-> Undefined, next |-> 0]
StringClosedAt(s, i, close) ==
    StringResult(ParseStringBody(SubSeq(s, i + 1, close - 1)), close)

\* the string literal that opens at position i (s[i] is a quote): it closes
\* at the next unescaped quote
ParseString(s, i) ==
    IF \A j \in (i + 1)..Len(s) : ~OpenQuote(s, j) THEN ParseFail
    ELSE StringClosedAt(s, i,
            CHOOSE j \in (i + 1)..Len(s) :
                /\ OpenQuote(s, j)
                /\ \A m \in (i + 1)..(j - 1) : ~OpenQuote(s, m))

RECURSIVE DigitsValue(_, _, _)
\* the number the digits s[a..b-1] write
DigitsValue(s, a, b) ==
    IF b <= a THEN 0 ELSE DigitsValue(s, a, b - 1) * 10 + (s[b - 1] - 48)

\* the number sgn * mant * 10^(exp - fl); a literal beyond the range of a
\* double reads as an infinity, one below it as zero
NumberOf(sgn, mant, fl, exp) ==
    IF mant = 0 \/ exp < -330 THEN Int2Num(0)
    ELSE IF exp > 308 THEN (IF sgn < 0 THEN NegInfinity ELSE Infinity)
    ELSE IF exp >= 0 THEN Rat(sgn * mant * Pow10(exp), Pow10(fl))
    ELSE Rat(sgn * mant, Pow10(fl) * Pow10(-exp))

\* the literal that starts at i: its digits start at a (a > i after a minus
\* sign), the integer part ends before ie, the fraction before fe (fe = ie:
\* no fraction), the exponent digits are s[ea..ee-1] (ea = fe: no exponent)
NumberLiteral(s, i, a, ie, fe, ea, ee) ==
    IF \/ ie = a
       \/ (s[a] = 48 /\ ie > a + 1)
       \/ (fe > ie /\ fe = ie + 1)
       \/ (ea > fe /\ ee = ea)
    THEN ParseFail
    ELSE [ok |-> TRUE,
          v |-> NumberOf(IF a > i THEN -1 ELSE 1,
                         DigitsValue(s, a, ie) * Pow10(IF fe > ie THEN fe - ie - 1 ELSE 0)
                             + (IF fe > ie THEN DigitsValue(s, ie + 1, fe) ELSE 0),
                         IF fe > ie THEN fe - ie - 1 ELSE 0,
                         IF ea > fe
                         THEN (IF s[ea - 1] = 45 THEN -1 ELSE 1) * DigitsValue(s, ea, ee)
                         ELSE 0),
          next |-> ee]

\* where the digits of the exponent start, fe if no exponent stands at fe
ExpStart(s, fe) ==
    IF fe <= Len(s) /\ s[fe] \in {101, 69}
    THEN IF fe + 1 <= Len(s) /\ s[fe + 1] \in {43, 45} THEN fe + 2 ELSE fe + 1
    ELSE fe
NumberExp(s, i, a, ie, fe, ea) ==
    NumberLiteral(s, i, a, ie, fe, ea, IF ea > fe THEN Scan(s, ea, Digits) ELSE fe)
NumberFrac(s, i, a, ie, fe) == NumberExp(s, i, a, ie, fe, ExpStart(s, fe))
NumberInt(s, i, a, ie) ==
    NumberFrac(s, i, a, ie,
               IF ie <= Len(s) /\ s[ie] = 46 THEN Scan(s, ie + 1, Digits) ELSE ie)
NumberDigits(s, i, a) == NumberInt(s, i, a, Scan(s, a, Digits))

\* the number literal at position i: -? int frac? exp?
ParseNumber(s, i) == NumberDigits(s, i, IF i <= Len(s) /\ s[i] = 45 THEN i + 1 ELSE i)

\* does the text lit stand at position i
Literal(s, i, lit) == i + Len(lit) - 1 <= Len(s) /\ SubSeq(s, i, i + Len(lit) - 1) = lit

\* o with key set to val: a repeated key keeps its place and takes the last value
Put(o, key, val) ==
    IF \E i \in 1..Len(o.k) : o.k[i] = key
    THEN Obj(o.k, [i \in 1..Len(o.k) |-> IF o.k[i] = key THEN val ELSE o.v[i]])
    ELSE Obj(Append(o.k, key), Append(o.v, val))

RECURSIVE ParseValue(_, _)
RECURSIVE ParseArray(_, _)
RECURSIVE ParseElements(_, _, _)
RECURSIVE AfterElement(_, _, _)
RECURSIVE ElementEnd(_, _, _)
RECURSIVE ParseObject(_, _)
RECURSIVE ParseMembers(_, _, _)
RECURSIVE AfterKey(_, _, _)
RECURSIVE AfterColon(_, _, _, _)
RECURSIVE AfterMember(_, _, _, _)
RECURSIVE MemberEnd(_, _, _)

\* the value at position i (no whitespace at i)
ParseValue(s, i) ==
    IF i > Len(s) THEN ParseFail
    ELSE CASE s[i] = 123 -> ParseObject(s, Scan(s, i + 1, JsonWs))
           [] s[i] = 91 -> ParseArray(s, Scan(s, i + 1, JsonWs))
           [] s[i] = 34 -> ParseString(s, i)
           [] s[i] = 45 \/ s[i] \in Digits -> ParseNumber(s, i)
           [] Literal(s, i, <<110, 117, 108, 108>>) ->
                [ok |-> TRUE, v |-> Null, next |-> i + 4]
           [] Literal(s, i, <<116, 114, 117, 101>>) ->
                [ok |-> TRUE, v |-> Bool(TRUE), next |-> i + 4]
           [] Literal(s, i, <<102, 97, 108, 115, 101>>) ->
                [ok |-> TRUE, v |-> Bool(FALSE), next |-> i + 5]
           [] OTHER -> ParseFail

\* an array whose bracket is read, j the position of what follows it
ParseArray(s, j) ==
    IF j <= Len(s) /\ s[j] = 93 THEN [ok |-> TRUE, v |-> Arr(<<>>), next |-> j + 1]
    ELSE ParseElements(s, j, <<>>)

\* the elements of an array from position i on, acc those read so far
ParseElements(s, i, acc) == AfterElement(s, acc, ParseValue(s, i))
AfterElement(s, acc, r) ==
    IF ~r.ok THEN ParseFail
    ELSE ElementEnd(s, Append(acc, r.v), Scan(s, r.next, JsonWs))
ElementEnd(s, acc, j) ==
    IF j > Len(s) THEN ParseFail
    ELSE IF s[j] = 93 THEN [ok |-> TRUE, v |-> Arr(acc), next |-> j + 1]
    ELSE IF s[j] = 44 THEN ParseElements(s, Scan(s, j + 1, JsonWs), acc)
    ELSE ParseFail

\* an object whose brace is read, j the position of what follows it
ParseObject(s, j) ==
    IF j <= Len(s) /\ s[j] = 125 THEN [ok |-> TRUE, v |-> Obj(<<>>, <<>>), next |-> j + 1]
    ELSE ParseMembers(s, j, Obj(<<>>, <<>>))

\* the members of an object from position i on, acc the object read so far
ParseMembers(s, i, acc) ==
    IF i > Len(s) \/ s[i] # 34 THEN ParseFail
    ELSE AfterKey(s, acc, ParseString(s, i))
AfterKey(s, acc, key) ==
    IF ~key.ok THEN ParseFail
    ELSE AfterColon(s, acc, key.v.s, Scan(s, key.next, JsonWs))
AfterColon(s, acc, name, c) ==
    IF c > Len(s) \/ s[c] # 58 THEN ParseFail
    ELSE AfterMember(s, acc, name, ParseValue(s, Scan(s, c + 1, JsonWs)))
AfterMember(s, acc, name, r) ==
    IF ~r.ok THEN ParseFail
    ELSE MemberEnd(s, Put(acc, name, r.v), Scan(s, r.next, JsonWs))
MemberEnd(s, acc, j) ==
    IF j > Len(s) THEN ParseFail
    ELSE IF s[j] = 125 THEN [ok |-> TRUE, v |-> acc, next |-> j + 1]
    ELSE IF s[j] = 44 THEN ParseMembers(s, Scan(s, j + 1, JsonWs), acc)
    ELSE ParseFail

\* the whole text is one value and whitespace
ParseEnd(s, r) ==
    IF r.ok /\ Scan(s, r.next, JsonWs) = Len(s) + 1
    THEN [ok |-> TRUE, v |-> r.v]
    ELSE [ok |-> FALSE, v |-> Undefined]

\* JSON.parse(s): [ok, v]; ok = FALSE is the SyntaxError it throws
JsonParse(s) == ParseEnd(s, ParseValue(s, Scan(s, 1, JsonWs)))

\* safeJsonParse: the parsed value, or null when JSON.parse throws
OrNull(r) == IF r.ok THEN r.v ELSE Null
safeJsonParse(s) == OrNull(JsonParse(s))

-----------------------------------------------------------------------------
(* Numbers: the arithmetic of the totals.                                  *)

IsZero(x) == x.k = "fin" /\ x.n = 0
\* -1, 0 or 1 (0 for NaN)
Sign(x) ==
    CASE x.k = "inf" -> 1
      [] x.k = "ninf" -> -1
      [] x.k = "nan" -> 0
      [] OTHER -> IF x.n > 0 THEN 1 ELSE IF x.n < 0 THEN -1 ELSE 0
Signed(sgn) == IF sgn > 0 THEN Infinity ELSE NegInfinity

\* a + b
NumAdd(a, b) ==
    IF a.k = "nan" \/ b.k = "nan" THEN NaN
    ELSE IF a.k = "fin" /\ b.k = "fin" THEN Rat(a.n * b.d + b.n * a.d, a.d * b.d)
    ELSE IF a.k # "fin" /\ b.k # "fin" /\ a.k # b.k THEN NaN
    ELSE IF a.k # "fin" THEN a
    ELSE b

\* a * b
NumMul(a, b) ==
    IF a.k = "nan" \/ b.k = "nan" THEN NaN
    ELSE IF a.k = "fin" /\ b.k = "fin" THEN Rat(a.n * b.n, a.d * b.d)
    ELSE IF IsZero(a) \/ IsZero(b) THEN NaN
    ELSE Signed(Sign(a) * Sign(b))

\* a / b, b finite and not zero
NumDiv(a, b) ==
    IF a.k = "nan" THEN NaN
    ELSE IF a.k = "fin" THEN Rat(a.n * b.d, a.d * b.n)
    ELSE Signed(Sign(a) * Sign(b))

\* Math.round(x): the integer nearest to x, a tie rounded towards +Infinity
MathRound(x) == IF x.k = "fin" THEN Int2Num((2 * x.n + x.d) \div (2 * x.d)) ELSE x

\* n + Number.EPSILON.  Number.EPSILON is 2^-52; a fraction of the model has a
\* denominator below 2^31, so 100 * n + 1/2 is an integer or lies more than
\* 100 * 2^-52 below the next one, and adding EPSILON moves no result of
\* Math.round: the sum is represented by n itself.
PlusEpsilon(n) == n

round2(n) == NumDiv(MathRound(NumMul(PlusEpsilon(n), Int2Num(100))), Int2Num(100))

\* Number(s) of a string: 0 for the empty string, NaN for what is no number
\* (the strings of the model are empty or written as JSON writes numbers)
WholeNumber(s, r) == IF r.ok /\ r.next = Len(s) + 1 THEN r.v ELSE NaN
StringToNumber(s) == IF s = <<>> THEN Int2Num(0) ELSE WholeNumber(s, ParseNumber(s, 1))

\* Number(x)
ToNumber(x) ==
    CASE x.t = "number" -> x
      [] x.t = "string" -> StringToNumber(x.s)
      [] x.t = "null" -> Int2Num(0)
      [] x.t = "boolean" -> Int2Num(IF x.b THEN 1 ELSE 0)
      [] OTHER -> NaN

\* x || 0
OrZero(x) == IF Falsy(x) THEN Int2Num(0) ELSE x

-----------------------------------------------------------------------------
(* The invoice.                                                            *)

kFromName == <<102, 114, 111, 109, 78, 97, 109, 101>>
kFromAddress == <<102, 114, 111, 109, 65, 100, 100, 114, 101, 115, 115>>
kBillToName == <<98, 105, 108, 108, 84, 111, 78, 97, 109, 101>>
kBillToAddress == <<98, 105, 108, 108, 84, 111, 65, 100, 100, 114, 101, 115, 115>>
kInvoiceNumber == <<105, 110, 118, 111, 105, 99, 101, 78, 117, 109, 98, 101, 114>>
kIssueDate == <<105, 115, 115, 117, 101, 68, 97, 116, 101>>
kDueDate == <<100, 117, 101, 68, 97, 116, 101>>
kCurrency == <<99, 117, 114, 114, 101, 110, 99, 121>>
kTaxRatePct == <<116, 97, 120, 82, 97, 116, 101, 80, 99, 116>>
kNotes == <<110, 111, 116, 101, 115>>
kItems == <<105, 116, 101, 109, 115>>
kId == <<105, 100>>
kDescription == <<100, 101, 115, 99, 114, 105, 112, 116, 105, 111, 110>>
kQuantity == <<113, 117, 97, 110, 116, 105, 116, 121>>
kUnitPrice == <<117, 110, 105, 116, 80, 114, 105, 99, 101>>

\* type Invoice, type LineItem: the keys in the order the code writes them
InvoiceKeys ==
    <<kFromName, kFromAddress, kBillToName, kBillToAddress, kInvoiceNumber,
      kIssueDate, kDueDate, kCurrency, kTaxRatePct, kNotes, kItems>>
LineItemKeys == <<kId, kDescription, kQuantity, kUnitPrice>>
\* the fields of type string
StringKeys ==
    <<kFromName, kFromAddress, kBillToName, kBillToAddress, kInvoiceNumber,
      kIssueDate, kDueDate, kCurrency, kNotes>>

LineItem(id, description, quantity, unitPrice) ==
    Obj(LineItemKeys, <<id, description, quantity, unitPrice>>)

\* invoice.items, as a sequence
Items(inv) == Get(inv, kItems).a
ItemIds(inv) == {Get(Items(inv)[i], kId) : i \in 1..Len(Items(inv))}

-----------------------------------------------------------------------------
(* Dates and identifiers.                                                  *)

IsLeap(y) == (y % 4 = 0 /\ y % 100 # 0) \/ y % 400 = 0
DaysInMonth(y, m) ==
    IF m = 2 THEN (IF IsLeap(y) THEN 29 ELSE 28)
    ELSE IF m \in {4, 6, 9, 11} THEN 30
    ELSE 31
NextDay(dt) ==
    IF dt[3] < DaysInMonth(dt[1], dt[2]) THEN <<dt[1], dt[2], dt[3] + 1>>
    ELSE IF dt[2] < 12 THEN <<dt[1], dt[2] + 1, 1>>
    ELSE <<dt[1] + 1, 1, 1>>

RECURSIVE PlusDays(_, _)
\* d.setDate(d.getDate() + days)
PlusDays(dt, days) == IF days = 0 THEN dt ELSE PlusDays(NextDay(dt), days - 1)

\* String(i).padStart(2, '0')
Pad2(i) == IF i < 10 THEN <<48, 48 + i>> ELSE IntDigits(i)
FormatISO(dt) == IntDigits(dt[1]) \o <<45>> \o Pad2(dt[2]) \o <<45>> \o Pad2(dt[3])

todayISO(now) == FormatISO(now)
plusDaysISO(now, days) == FormatISO(PlusDays(now, days))

RECURSIVE HexDigits(_)
\* i.toString(16)
HexDigits(i) ==
    LET h(v) == IF v < 10 THEN 48 + v ELSE 87 + v
    IN  IF i < 16 THEN <<h(i)>> ELSE HexDigits(i \div 16) \o <<h(i % 16)>>

\* uid(), the c-th call of the session: the random part is different at every
\* call (section 4.1: unique within a process lifetime), the time part is the day
uid(c, now) == HexDigits(c) \o HexDigits((now[1] * 12 + now[2]) * 31 + now[3])

-----------------------------------------------------------------------------
(* exampleInvoice and normalizeInvoice.                                    *)

\* const exampleInvoice, evaluated when the module loads: c identifiers have
\* been produced before
exampleInvoice(c, now) ==
    Obj(InvoiceKeys,
        <<Str(<<65, 99, 109, 101, 32, 83, 116, 117, 100, 105, 111, 32, 76, 76, 67>>),
          Str(<<49, 45, 50, 45, 51, 32, 83, 104, 105, 98, 117, 121, 97, 10,
                84, 111, 107, 121, 111, 44, 32, 74, 97, 112, 97, 110>>),
          Str(<<67, 108, 105, 101, 110, 116, 32, 67, 111, 46>>),
          Str(<<53, 48, 48, 32, 77, 97, 114, 107, 101, 116, 32, 83, 116, 10,
                83, 97, 110, 32, 70, 114, 97, 110, 99, 105, 115, 99, 111, 44, 32, 67, 65>>),
          Str(<<73, 78, 86, 45, 49, 48, 48, 55>>),
          Str(todayISO(now)),
          Str(plusDaysISO(now, 14)),
          Str(<<85, 83, 68>>),
          Int2Num(10),
          Str(<<84, 104, 97, 110, 107, 32, 121, 111, 117, 32, 102, 111, 114, 32,
                121, 111, 117, 114, 32, 98, 117, 115, 105, 110, 101, 115, 115, 46, 32,
                80, 108, 101, 97, 115, 101, 32, 105, 110, 99, 108, 117, 100, 101, 32,
                116, 104, 101, 32, 105, 110, 118, 111, 105, 99, 101, 32,
                110, 117, 109, 98, 101, 114, 32, 111, 110, 32, 121, 111, 117, 114, 32,
                112, 97, 121, 109, 101, 110, 116, 32,
                114, 101, 102, 101, 114, 101, 110, 99, 101, 46>>),
          Arr(<<LineItem(Str(uid(c, now)),
                         Str(<<76, 97, 110, 100, 105, 110, 103, 32, 112, 97, 103, 101, 32,
                               100, 101, 115, 105, 103, 110, 32, 40, 70, 105, 103, 109, 97, 41>>),
                         Int2Num(1), Int2Num(900)),
                LineItem(Str(uid(c + 1, now)),
                         Str(<<73, 109, 112, 108, 101, 109, 101, 110, 116, 97, 116, 105, 111, 110,
                               32, 40, 78, 101, 120, 116, 46, 106, 115, 41>>),
                         Int2Num(10), Int2Num(90))>>)>>)

\* does normalizeInvoice call uid() for this entry of items
NeedsId(it) == ~IsString(Get(it, kId))

\* how many identifiers normalizeInvoice(input) draws
UidsDrawn(input) ==
    IF IsArray(Get(input, kItems))
    THEN Cardinality({i \in 1..Len(Get(input, kItems).a) : NeedsId(Get(input, kItems).a[i])})
    ELSE 1

\* the items of normalizeInvoice(input)
\* an entry whose identifier is drawn anew whatever it holds (what C2 rules out)
NormalizedItemFresh(it, fresh) ==
    LineItem(fresh,
             IF IsString(Get(it, kDescription)) THEN Get(it, kDescription) ELSE Str(<<>>),
             IF IsNumber(Get(it, kQuantity)) THEN Get(it, kQuantity) ELSE Int2Num(1),
             IF IsNumber(Get(it, kUnitPrice)) THEN Get(it, kUnitPrice) ELSE Int2Num(0))

\* one entry of input.items.map(...): it the entry, fresh the identifier that
\* uid() gives if it is called for this entry
NormalizedItem(it, fresh) ==
    LineItem(IF IsString(Get(it, kId)) THEN Get(it, kId) ELSE fresh,
             IF IsString(Get(it, kDescription)) THEN Get(it, kDescription) ELSE Str(<<>>),
             IF IsNumber(Get(it, kQuantity)) THEN Get(it, kQuantity) ELSE Int2Num(1),
             IF IsNumber(Get(it, kUnitPrice)) THEN Get(it, kUnitPrice) ELSE Int2Num(0))

\* input.items.map(...): the entries before i that need an identifier have
\* drawn theirs
MappedItems(its, c, now) ==
    [i \in 1..Len(its) |->
        NormalizedItem(its[i],
            Str(uid(c + Cardinality({j \in 1..(i - 1) : NeedsId(its[j])}), now)))]

\* the items of normalizeInvoice(input)
NormalizedItems(input, c, now) ==
    IF IsArray(Get(input, kItems)) THEN MappedItems(Get(input, kItems).a, c, now)
    ELSE <<LineItem(Str(uid(c, now)), Str(<<83, 101, 114, 118, 105, 99, 101>>),
                    Int2Num(1), Int2Num(0))>>

\* normalizeInvoice(input), input not null; c identifiers have been produced
\* before, now is the day
normalizeInvoice(input, c, now) ==
    Obj(InvoiceKeys,
        <<Coalesce(Get(input, kFromName), Str(<<>>)),
          Coalesce(Get(input, kFromAddress), Str(<<>>)),
          Coalesce(Get(input, kBillToName), Str(<<>>)),
          Coalesce(Get(input, kBillToAddress), Str(<<>>)),
          Coalesce(Get(input, kInvoiceNumber), Str(<<>>)),
          Coalesce(Get(input, kIssueDate), Str(todayISO(now))),
          Coalesce(Get(input, kDueDate), Str(plusDaysISO(now, 14))),
          Coalesce(Get(input, kCurrency), Str(<<85, 83, 68>>)),
          IF IsNumber(Get(input, kTaxRatePct)) THEN Get(input, kTaxRatePct) ELSE Int2Num(0),
          Coalesce(Get(input, kNotes), Str(<<>>)),
          Arr(NormalizedItems(input, c, now))>>)

-----------------------------------------------------------------------------
(* parseInvoiceFromUrl and the totals.                                     *)

StatusNone == ""
StatusShareLink == "Loaded invoice from share link."
StatusExample == "Loaded example invoice."
StatusSaved == "Saved to this browser (localStorage)."
StatusNoSaved == "No saved invoice found in this browser."
StatusCorrupted == "Saved data was corrupted."
StatusLoaded == "Loaded saved invoice from this browser."
StatusCopied == "Copied share link to clipboard."

\* parseInvoiceFromUrl() in a browser whose URL has the data parameter `data`
\* (null when the URL has none); ex is exampleInvoice.  path tells which
\* return statement was taken, threw whether an exception left the function.
\* a return statement of parseInvoiceFromUrl: what it normalizes, its status
Return(input, st, path) == [input |-> input, status |-> st, path |-> path]
FromParsed(parsed, ex) ==
    IF Falsy(parsed) THEN Return(ex, StatusNone, "noparse")
    ELSE Return(parsed, StatusShareLink, "loaded")
FromDecoded(json, ex) ==
    IF json.threw THEN Return(ex, StatusNone, "catch")
    ELSE FromParsed(safeJsonParse(json.text), ex)
Returned(r, c, now) ==
    [invoice |-> normalizeInvoice(r.input, c, now), status |-> r.status,
     input |-> r.input, path |-> r.path, threw |-> FALSE]
parseInvoiceFromUrl(data, ex, c, now) ==
    Returned(IF Falsy(data) THEN Return(ex, StatusNone, "nodata")
             ELSE FromDecoded(base64UrlDecodeUtf8(data.s), ex),
             c, now)

RECURSIVE LineSumPerLine(_, _)
\* a sum of line totals that are rounded one by one (what C5 rules out)
LineSumPerLine(its, i) ==
    IF i = 0 THEN Int2Num(0)
    ELSE NumAdd(LineSumPerLine(its, i - 1),
                round2(NumMul(OrZero(ToNumber(Get(its[i], kQuantity))),
                              OrZero(ToNumber(Get(its[i], kUnitPrice))))))

RECURSIVE LineSum(_, _)
\* invoice.items.reduce((acc, it) => acc + (Number(it.quantity) || 0)
\*                                       * (Number(it.unitPrice) || 0), 0)
LineSum(its, i) ==
    IF i = 0 THEN Int2Num(0)
    ELSE NumAdd(LineSum(its, i - 1),
                NumMul(OrZero(ToNumber(Get(its[i], kQuantity))),
                       OrZero(ToNumber(Get(its[i], kUnitPrice)))))

\* const totals = useMemo(...)
TotalOf(subtotal, tax) ==
    [subtotal |-> subtotal, tax |-> tax, total |-> round2(NumAdd(subtotal, tax))]
TaxOf(inv, subtotal) ==
    TotalOf(subtotal,
            round2(NumDiv(NumMul(subtotal, OrZero(ToNumber(Get(inv, kTaxRatePct)))),
                          Int2Num(100))))
totals(inv) == TaxOf(inv, round2(LineSum(Items(inv), Len(Items(inv)))))

-----------------------------------------------------------------------------
(* The inputs of the model.                                                *)

\* the day the session starts
StartDates == {<<2024, 2, 16>>}

\* JSON texts that a share link or the store may carry
TextEmptyObject == JsonStringify(Obj(<<>>, <<>>))
TextNull == JsonStringify(Null)
TextNoItems == JsonStringify(Obj(<<kItems>>, <<Arr(<<>>)>>))
\* {"fromName":5,"currency":{},"items":[7,null]}
TextWrongTypes ==
    JsonStringify(Obj(<<kFromName, kCurrency, kItems>>,
                      <<Int2Num(5), Obj(<<>>, <<>>), Arr(<<Int2Num(7), Null>>)>>))
\* {"items":[{"id":"a","quantity":1,"unitPrice":0.005},
\*           {"id":"a","quantity":1,"unitPrice":0.005}]}
TextSameIds ==
    JsonStringify(Obj(<<kItems>>,
        <<Arr(<<Obj(<<kId, kQuantity, kUnitPrice>>, <<Str(<<97>>), Int2Num(1), Rat(5, 1000)>>),
                Obj(<<kId, kQuantity, kUnitPrice>>, <<Str(<<97>>), Int2Num(1), Rat(5, 1000)>>)>>)>>))
\* {"taxRatePct":1e400,"items":[{"id":"b","description":"x","quantity":3,"unitPrice":0.1}]}
TextOverflow ==
    <<123, 34>> \o kTaxRatePct \o <<34, 58, 49, 101, 52, 48, 48, 44, 34>> \o kItems
        \o <<34, 58>>
        \o JsonStringify(Arr(<<LineItem(Str(<<98>>), Str(<<120>>), Int2Num(3), Rat(1, 10))>>))
        \o <<125>>
\* {"taxRatePct":7.5,"items":[{"id":"n","quantity":-1,"unitPrice":0.005}]}
TextCredit ==
    JsonStringify(Obj(<<kTaxRatePct, kItems>>,
        <<Rat(75, 10),
          Arr(<<Obj(<<kId, kQuantity, kUnitPrice>>,
                    <<Str(<<110>>), Int2Num(-1), Rat(5, 1000)>>)>>)>>))
\* a valid invoice whose texts need UTF-8 and the escapes of JSON
InvoiceAccents ==
    Obj(InvoiceKeys,
        <<Str(<<90, 111, 235, 32, 38, 32, 34, 67, 111, 34>>),
          Str(<<49, 32, 114, 117, 101, 32, 92, 32, 10, 9, 8364>>),
          Str(<<26085, 26412>>),
          Str(<<>>),
          Str(<<35, 49>>),
          Str(<<50, 48, 50, 52, 45, 48, 49, 45, 51, 49>>),
          Str(<<50, 48, 50, 52, 45, 48, 50, 45, 49, 52>>),
          Str(<<69, 85, 82>>),
          Rat(55, 10),
          Str(<<128578>>),
          Arr(<<LineItem(Str(<<120, 49>>), Str(<<47, 104>>), Rat(5, 2), Rat(1999, 100)),
                LineItem(Str(<<120, 50>>), Str(<<>>), Int2Num(-1), Int2Num(0))>>)>>)
TextAccents == JsonStringify(InvoiceAccents)
\* {oops
TextGarbage == <<123, 111, 111, 112, 115>>

\* the values of the data parameter a page is opened with: none, the empty
\* string, not-base64!!, a token of length 1 modulo 4, the byte FF, {oops, and
\* the tokens of the JSON texts above
DataParams ==
    {Null, Str(<<>>),
     Str(<<110, 111, 116, 45, 98, 97, 115, 101, 54, 52, 33, 33>>),
     Str(<<101, 50, 57, 118, 99>>),
     Str(<<95, 119>>),
     Str(base64UrlEncodeUtf8(TextGarbage))}
    \cup {Str(base64UrlEncodeUtf8(txt)) :
            txt \in {TextEmptyObject, TextNull, TextNoItems, TextWrongTypes,
                     TextSameIds, TextOverflow, TextCredit, TextAccents}}

\* what the store holds when the session starts: nothing, or text that another
\* program or an earlier version left under the key (empty, no JSON, null)
StartStorage == {Null, Str(<<>>), Str(TextGarbage), Str(TextNull)}

\* the browser a session starts in: every data parameter with an empty store,
\* and every store with no data parameter
StartWorlds ==
    {[data |-> d, storage |-> Null] : d \in DataParams}
    \cup {[data |-> Null, storage |-> st] : st \in StartStorage}

\* what the form fields call update with (lines 259, 284): the typed text
\* for a text field, Number(...) of it for the tax rate
UpdateInputs ==
    {[key |-> kFromName, value |-> Str(<<90, 111, 235>>)],
     [key |-> kTaxRatePct, value |-> ToNumber(Str(<<55, 46, 53>>))]}

\* what the number fields of an item row call updateItem with (lines 333, 341)
PatchInputs ==
    {[key |-> kQuantity, value |-> ToNumber(Str(<<51>>))],
     [key |-> kUnitPrice, value |-> ToNumber(Str(<<48, 46, 49>>))]}

-----------------------------------------------------------------------------
(* The state machine.                                                      *)

Logged(op, data, key, id, input) ==
    [op |-> op, data |-> data, key |-> key, id |-> id, input |-> input]

\* a page load: the module is evaluated (exampleInvoice), then the component
\* is initialised from the URL (lines 147-149)
PageLoad(data, c, now) ==
    \E ex \in {exampleInvoice(c, now)} :
        \E init \in {parseInvoiceFromUrl(data, ex, c + 2, now)} :
            /\ example' = ex
            /\ invoice' = init.invoice
            /\ status' = init.status
            /\ uidCount' = c + 2 + UidsDrawn(init.input)
            /\ log' = Logged("load", data, <<>>, Null, init.input)

Init ==
    \E w \in StartWorlds, now \in StartDates :
        \E ex \in {exampleInvoice(0, now)} :
        \E init \in {parseInvoiceFromUrl(w.data, ex, 2, now)} :
            /\ example = ex
            /\ invoice = init.invoice
            /\ status = init.status
            /\ uidCount = 2 + UidsDrawn(init.input)
            /\ log = Logged("load", w.data, <<>>, Null, init.input)
            /\ storage = w.storage
            /\ clipboard = Null
            /\ clock = now
            /\ saved = Null
            /\ shared = Null
            /\ ops = 0

\* update(key, value)
update(key, value) ==
    /\ ops < MaxOps
    /\ invoice' = Put(invoice, key, value)
    /\ log' = Logged("update", Null, key, Null, Null)
    /\ ops' = ops + 1
    /\ UNCHANGED <<status, example, storage, clipboard, clock, uidCount, saved, shared>>

\* updateItem(id, patch), patch = {[key]: value}
updateItem(id, key, value) ==
    /\ ops < MaxOps
    /\ invoice' = Put(invoice, kItems,
            Arr([i \in 1..Len(Items(invoice)) |->
                    IF Get(Items(invoice)[i], kId) = id
                    THEN Put(Items(invoice)[i], key, value)
                    ELSE Items(invoice)[i]]))
    /\ log' = Logged("updateItem", Null, key, id, Null)
    /\ ops' = ops + 1
    /\ UNCHANGED <<status, example, storage, clipboard, clock, uidCount, saved, shared>>

addItem ==
    /\ ops < MaxOps
    /\ Len(Items(invoice)) < MaxItems
    /\ invoice' = Put(invoice, kItems,
            Arr(Append(Items(invoice),
                       LineItem(Str(uid(uidCount, clock)), Str(<<>>), Int2Num(1), Int2Num(0)))))
    /\ uidCount' = uidCount + 1
    /\ log' = Logged("addItem", Null, <<>>, Str(uid(uidCount, clock)), Null)
    /\ ops' = ops + 1
    /\ UNCHANGED <<status, example, storage, clipboard, clock, saved, shared>>

\* prev.items.length <= 1 ? prev.items : prev.items.filter((it) => it.id !== id)
removeItem(id) ==
    /\ ops < MaxOps
    /\ invoice' = Put(invoice, kItems,
            Arr(IF Len(Items(invoice)) <= 1 THEN Items(invoice)
                ELSE SelectSeq(Items(invoice), LAMBDA it : Get(it, kId) # id)))
    /\ log' = Logged("removeItem", Null, <<>>, id, Null)
    /\ ops' = ops + 1
    /\ UNCHANGED <<status, example, storage, clipboard, clock, uidCount, saved, shared>>

loadExample ==
    /\ ops < MaxOps
    /\ invoice' = normalizeInvoice(example, uidCount, clock)
    /\ status' = StatusExample
    /\ uidCount' = uidCount + UidsDrawn(example)
    /\ log' = Logged("loadExample", Null, <<>>, Null, example)
    /\ ops' = ops + 1
    /\ UNCHANGED <<example, storage, clipboard, clock, saved, shared>>

saveLocal ==
    /\ ops < MaxOps
    /\ storage' = Str(JsonStringify(invoice))
    /\ status' = StatusSaved
    /\ saved' = invoice
    /\ log' = Logged("saveLocal", Null, <<>>, Null, Null)
    /\ ops' = ops + 1
    /\ UNCHANGED <<invoice, example, clipboard, clock, uidCount, shared>>

loadLocal ==
    /\ ops < MaxOps
    /\ ops' = ops + 1
    /\ IF Falsy(storage)
       THEN /\ status' = StatusNoSaved
            /\ log' = Logged("loadLocal", Null, <<>>, Null, Null)
            /\ UNCHANGED <<invoice, uidCount>>
       ELSE \E parsed \in {safeJsonParse(storage.s)} :
                IF Falsy(parsed)
                THEN /\ status' = StatusCorrupted
                     /\ log' = Logged("loadLocal", Null, <<>>, Null, Null)
                     /\ UNCHANGED <<invoice, uidCount>>
                ELSE /\ invoice' = normalizeInvoice(parsed, uidCount, clock)
                     /\ status' = StatusLoaded
                     /\ uidCount' = uidCount + UidsDrawn(parsed)
                     /\ log' = Logged("loadLocal", Null, <<>>, Null, parsed)
    /\ UNCHANGED <<example, storage, clipboard, clock, saved, shared>>

\* copyShareLink: the data parameter of the URL written to the clipboard
copyShareLink ==
    /\ ops < MaxOps
    /\ clipboard' = Str(base64UrlEncodeUtf8(JsonStringify(invoice)))
    /\ status' = StatusCopied
    /\ shared' = invoice
    /\ log' = Logged("copyShareLink", Null, <<>>, Null, Null)
    /\ ops' = ops + 1
    /\ UNCHANGED <<invoice, example, storage, clock, uidCount, saved>>

\* the copied link is opened: a new page load, with the same store
openShareLink ==
    /\ ops < MaxOps
    /\ ~Falsy(clipboard)
    /\ PageLoad(clipboard, uidCount, clock)
    /\ ops' = ops + 1
    /\ UNCHANGED <<storage, clipboard, clock, saved, shared>>

\* midnight passes
tick ==
    /\ ops < MaxOps
    /\ \E start \in StartDates, k \in 0..(MaxDays - 1) : clock = PlusDays(start, k)
    /\ clock' = NextDay(clock)
    /\ log' = Logged("tick", Null, <<>>, Null, Null)
    /\ ops' = ops + 1
    /\ UNCHANGED <<invoice, status, example, storage, clipboard, uidCount, saved, shared>>

Next ==
    \/ \E in \in UpdateInputs : update(in.key, in.value)
    \/ \E id \in ItemIds(invoice), in \in PatchInputs : updateItem(id, in.key, in.value)
    \/ addItem
    \/ \E id \in ItemIds(invoice) : removeItem(id)
    \/ loadExample
    \/ saveLocal
    \/ loadLocal
    \/ copyShareLink
    \/ openShareLink
    \/ tick

Spec == Init /\ [][Next]_vars

-----------------------------------------------------------------------------
(* The totals (section "Totals").                                          *)

\* quantity * unitPrice of one item, a factor that is no number counted as 0
Amount(it) ==
    NumMul(OrZero(ToNumber(Get(it, kQuantity))), OrZero(ToNumber(Get(it, kUnitPrice))))

RECURSIVE SumFrom(_, _)
\* the exact sum of the amounts of its[i..], from the right
SumFrom(its, i) ==
    IF i > Len(its) THEN Int2Num(0) ELSE NumAdd(Amount(its[i]), SumFrom(its, i + 1))

Rate(inv) == OrZero(ToNumber(Get(inv, kTaxRatePct)))

\* the items are [{qty 1, price 900}, {qty 10, price 90}] and the tax is 10%
ExampleAmounts(inv) ==
    /\ [i \in 1..Len(Items(inv)) |->
            <<Get(Items(inv)[i], kQuantity), Get(Items(inv)[i], kUnitPrice)>>]
       = <<<<Int2Num(1), Int2Num(900)>>, <<Int2Num(10), Int2Num(90)>>>>
    /\ Get(inv, kTaxRatePct) = Int2Num(10)

\* C5: in every state, subtotal = round2(the exact sum of quantity * unitPrice,
\* a non-numeric factor counted as 0), tax = round2(subtotal * taxRatePct / 100)
\* from the rounded subtotal, total = round2(subtotal + tax); the items
\* [{1, 900}, {10, 90}] at 10% give 1800.00, 180.00, 1980.00.
C5_TotalsDerivation ==
    LET t == totals(invoice)
    IN  /\ t.subtotal = round2(SumFrom(Items(invoice), 1))
        /\ t.tax = round2(NumDiv(NumMul(t.subtotal, Rate(invoice)), Int2Num(100)))
        /\ t.total = round2(NumAdd(t.subtotal, t.tax))
        /\ ExampleAmounts(invoice) =>
               t = [subtotal |-> Int2Num(1800), tax |-> Int2Num(180),
                    total |-> Int2Num(1980)]

\* C5 witness: an invoice of several items whose line totals, rounded one by
\* one, add up to something else than its subtotal
C5_PerLineRoundingDiffers ==
    /\ Len(Items(invoice)) >= 2
    /\ IsFinite(totals(invoice).subtotal)
    /\ LineSumPerLine(Items(invoice), Len(Items(invoice))) # totals(invoice).subtotal

-----------------------------------------------------------------------------
(* The share link (section "Share codec").                                 *)

ValidItem(it) ==
    /\ it.t = "object"
    /\ IsString(Get(it, kId)) /\ IsString(Get(it, kDescription))
    /\ IsFinite(Get(it, kQuantity)) /\ IsFinite(Get(it, kUnitPrice))

\* a valid Invoice: every field of its declared type, finite numbers, string
\* item ids
ValidInvoice(inv) ==
    /\ inv.t = "object"
    /\ \A i \in 1..Len(StringKeys) : IsString(Get(inv, StringKeys[i]))
    /\ IsFinite(Get(inv, kTaxRatePct))
    /\ IsArray(Get(inv, kItems))
    /\ \A i \in 1..Len(Items(inv)) : ValidItem(Items(inv)[i])

IdsOf(inv) == [i \in 1..Len(Items(inv)) |-> Get(Items(inv)[i], kId)]

\* the page has just been loaded from the link that copyShareLink wrote
OpenedCopiedLink == log.op = "load" /\ ~Falsy(clipboard) /\ log.data = clipboard

\* C1: when the link copied from a valid invoice I is opened, the page holds
\* normalizeInvoice(I) with the success status, and the item ids, their order
\* and their number are those of I.
C1_ShareLinkRoundTrip ==
    (OpenedCopiedLink /\ ValidInvoice(shared)) =>
        /\ status = StatusShareLink
        /\ invoice = normalizeInvoice(shared, uidCount, clock)
        /\ IdsOf(invoice) = IdsOf(shared)

\* C1 witness: the link of a valid invoice of two items, whose texts hold
\* quotes, a backslash, control characters and characters of two, three and
\* four UTF-8 bytes, has been opened
C1_AccentsLinkOpened ==
    /\ OpenedCopiedLink
    /\ ValidInvoice(shared)
    /\ Get(shared, kFromName) = Get(InvoiceAccents, kFromName)
    /\ Get(shared, kFromAddress) = Get(InvoiceAccents, kFromAddress)
    /\ Get(shared, kNotes) = Get(InvoiceAccents, kNotes)
    /\ Len(Items(shared)) = 2

-----------------------------------------------------------------------------
(* The normalizer (section "Normalizer").                                  *)

\* how many identifiers had been produced when the input of the last
\* operation was normalized
UidsBefore == uidCount - UidsDrawn(log.input)

\* C2: whenever an input x has been normalized, the invoice is
\* normalizeInvoice(x), and normalizing it again on the same day gives the
\* same invoice, with every item id kept.
C2_NormalizeIdempotent ==
    log.input # Null =>
        /\ invoice = normalizeInvoice(log.input, UidsBefore, clock)
        /\ normalizeInvoice(invoice, uidCount, clock) = invoice
        /\ IdsOf(normalizeInvoice(invoice, uidCount, clock)) = IdsOf(invoice)

\* C2 witness: an input has been normalized that was no normalized invoice:
\* the first normalization drew an identifier and changed the input
C2_DefaultsFilledIn ==
    /\ log.input # Null
    /\ UidsDrawn(log.input) > 0
    /\ log.input # invoice

\* every field has its declared primitive type and there is an item
WellTyped(inv) ==
    /\ \A i \in 1..Len(StringKeys) : IsString(Get(inv, StringKeys[i]))
    /\ IsNumber(Get(inv, kTaxRatePct))
    /\ IsArray(Get(inv, kItems))
    /\ Len(Items(inv)) >= 1
    /\ \A i \in 1..Len(Items(inv)) :
          /\ IsString(Get(Items(inv)[i], kId))
          /\ IsString(Get(Items(inv)[i], kDescription))
          /\ IsNumber(Get(Items(inv)[i], kQuantity))
          /\ IsNumber(Get(Items(inv)[i], kUnitPrice))

\* C3: whenever an input object has been normalized, every string field of
\* the result is a string, taxRatePct a number, every item has a string id and
\* description and a numeric quantity and unitPrice, and there is an item.
C3_NormalizerPostcondition ==
    (log.input # Null /\ log.input.t = "object") => WellTyped(invoice)

\* C4: in every reachable state the invoice has at least one item.
C4_ItemsNonEmpty == Len(Items(invoice)) >= 1

\* C10: in every reachable state the ids of the items are pairwise distinct.
C10_ItemIdsDistinct ==
    \A i, j \in 1..Len(Items(invoice)) :
        Get(Items(invoice)[i], kId) = Get(Items(invoice)[j], kId) => i = j

-----------------------------------------------------------------------------
(* Rounding (section "Totals").                                            *)

\* the multiple of 0.01 nearest to the finite number x, the one farther from
\* zero when x lies halfway between two
NearestCent(x) ==
    Rat((IF x.n < 0 THEN -1 ELSE 1) * ((200 * Abs(x.n) + x.d) \div (2 * x.d)), 100)

\* what the totals of an invoice pass to round2
Round2Arguments(inv) ==
    {LineSum(Items(inv), Len(Items(inv))),
     NumDiv(NumMul(totals(inv).subtotal, Rate(inv)), Int2Num(100)),
     NumAdd(totals(inv).subtotal, totals(inv).tax)}

\* C6: round2 of every finite number the totals round is the nearest multiple
\* of 0.01, a tie going away from zero, also below zero; round2(3 * 0.1) is 0.3.
C6_Round2HalfAwayFromZero ==
    /\ \A x \in Round2Arguments(invoice) : IsFinite(x) => round2(x) = NearestCent(x)
    /\ round2(NumMul(Int2Num(3), Rat(1, 10))) = Rat(30, 100)

-----------------------------------------------------------------------------
(* Opening a page (section "Share codec", failures).                       *)

\* the data parameter is present, not empty, and cannot be decoded: atob
\* throws, or the decoded text is no JSON (as after bytes that are no UTF-8)
Undecodable(data) ==
    /\ data.t = "string" /\ data.s # <<>>
    /\ \/ base64UrlDecodeUtf8(data.s).threw
       \/ ~JsonParse(base64UrlDecodeUtf8(data.s).text).ok

\* C7: after a page load whose data parameter is present and undecodable, the
\* invoice is the normalized example and the status is neither the success
\* status nor the status of a load without data parameter.
C7_DecodeFailureStatus ==
    (log.op = "load" /\ Undecodable(log.data)) =>
        /\ invoice = normalizeInvoice(example, uidCount, clock)
        /\ status # StatusShareLink
        /\ status # parseInvoiceFromUrl(Null, example, uidCount, clock).status

\* the data parameter decodes to a JSON value that has no field of an invoice
EmptyPayload(data) ==
    /\ data.t = "string"
    /\ ~base64UrlDecodeUtf8(data.s).threw
    /\ JsonParse(base64UrlDecodeUtf8(data.s).text).ok
    /\ \A i \in 1..Len(InvoiceKeys) :
          Get(JsonParse(base64UrlDecodeUtf8(data.s).text).v, InvoiceKeys[i]) = Undefined

\* the normalization of a payload without fields: empty strings, the default
\* dates, USD, tax 0, one default item
EmptyInvoice(inv, now) ==
    /\ \A key \in {kFromName, kFromAddress, kBillToName, kBillToAddress,
                   kInvoiceNumber, kNotes} : Get(inv, key) = Str(<<>>)
    /\ Get(inv, kIssueDate) = Str(todayISO(now))
    /\ Get(inv, kDueDate) = Str(plusDaysISO(now, 14))
    /\ Get(inv, kCurrency) = Str(<<85, 83, 68>>)
    /\ Get(inv, kTaxRatePct) = Int2Num(0)
    /\ Len(Items(inv)) = 1
    /\ IsString(Get(Items(inv)[1], kId))
    /\ Get(Items(inv)[1], kDescription) = Str(<<83, 101, 114, 118, 105, 99, 101>>)
    /\ Get(Items(inv)[1], kQuantity) = Int2Num(1)
    /\ Get(Items(inv)[1], kUnitPrice) = Int2Num(0)

\* C8: after a page load whose data parameter decodes to an empty payload,
\* the status is the success status and the invoice is the normalization of
\* the payload, not the example.
C8_EmptyPayloadIsSuccess ==
    (log.op = "load" /\ EmptyPayload(log.data)) =>
        /\ status = StatusShareLink
        /\ EmptyInvoice(invoice, clock)

-----------------------------------------------------------------------------
(* The store (section "Persistent store").                                 *)

RECURSIVE AllFinite(_)
\* no number inside x is NaN or an infinity
AllFinite(x) ==
    CASE x.t = "number" -> x.k = "fin"
      [] x.t = "array" -> \A i \in 1..Len(x.a) : AllFinite(x.a[i])
      [] x.t = "object" -> \A i \in 1..Len(x.v) : AllFinite(x.v[i])
      [] OTHER -> TRUE

\* a step of loadLocal
LoadLocalStep == log'.op = "loadLocal" /\ ops' = ops + 1

StatusesDiffer ==
    /\ StatusNoSaved # StatusCorrupted
    /\ StatusNoSaved # StatusLoaded
    /\ StatusCorrupted # StatusLoaded

\* C9 as the spec states it: no entry and an entry (a text that is not empty)
\* that is no JSON give two statuses, neither the success status, and leave
\* the invoice alone; the invoice is replaced only by normalizeInvoice of
\* parsed JSON; and a load after a save restores the invoice of the save.
C9_LoadLocal ==
    [][LoadLocalStep =>
        /\ StatusesDiffer
        /\ storage = Null => (status' = StatusNoSaved /\ invoice' = invoice)
        /\ (storage # Null /\ storage.s # <<>> /\ ~JsonParse(storage.s).ok) =>
              (status' = StatusCorrupted /\ invoice' = invoice)
        /\ invoice' # invoice =>
              /\ storage # Null /\ JsonParse(storage.s).ok
              /\ invoice' = normalizeInvoice(JsonParse(storage.s).v, uidCount, clock)
        /\ saved # Null => (status' = StatusLoaded /\ invoice' = saved)]_vars

\* what loadLocal takes for no entry, and for a corrupt one
NoEntry(st) == st = Null \/ st = Str(<<>>)
CorruptEntry(st) == ~NoEntry(st) /\ (~JsonParse(st.s).ok \/ Falsy(JsonParse(st.s).v))

\* C9, amended: an entry that is the empty text counts as no entry, a text
\* that parses to a falsy JSON value (null, 0, false, "") as corrupt; every
\* other entry is parsed, normalized and loaded with the success status; and
\* a load after a save restores the invoice of the save if every number in it
\* is finite.
C9_LoadLocalAmended ==
    [][LoadLocalStep =>
        /\ StatusesDiffer
        /\ NoEntry(storage) => (status' = StatusNoSaved /\ invoice' = invoice)
        /\ CorruptEntry(storage) => (status' = StatusCorrupted /\ invoice' = invoice)
        /\ (~NoEntry(storage) /\ ~CorruptEntry(storage)) =>
              /\ status' = StatusLoaded
              /\ invoice' = normalizeInvoice(JsonParse(storage.s).v, uidCount, clock)
        /\ (saved # Null /\ AllFinite(saved)) =>
              (status' = StatusLoaded /\ invoice' = saved)]_vars

\* C9 witness: loadLocal has restored the invoice of the last save, an invoice
\* with a fraction and texts that JSON escapes
C9_Restored ==
    /\ log.op = "loadLocal"
    /\ status = StatusLoaded
    /\ saved # Null /\ AllFinite(saved)
    /\ invoice = saved
    /\ \E i \in 1..Len(Items(saved)) : Get(Items(saved)[i], kUnitPrice).d > 1

====
